---- MODULE Spec2Model ----
(***************************************************************************)
(* Confetti particle engine of src/scripts/confetti.js as a state machine. *)
(*                                                                         *)
(* Numbers.  JavaScript numbers are carried in fixed point:                *)
(*   - positions, velocities and sizes in hundredths of a surface unit,    *)
(*   - life and opacity in hundredths (the decrement 0.01 is 1),           *)
(*   - windResistance in hundredths (0.98 is 98),                          *)
(*   - angles of the launch range in degrees, rotations in milliradians,   *)
(*   - Math.random() results in thousandths (0 .. 999).                    *)
(* Products are rounded towards minus infinity (\div).  The sign of life   *)
(* after every number of decrements is the same in IEEE doubles and in     *)
(* this exact arithmetic (positive up to 99 decrements, not positive from  *)
(* the 100th on).                                                          *)
(*                                                                         *)
(* JavaScript undefined.  The module-level variables are undefined until   *)
(* initConfetti or stopConfetti assigns them.  isAnimating and animationId *)
(* are only ever read for truthiness and particles is never read while     *)
(* undefined, so undefined is carried as the falsy value of the type:      *)
(* FALSE, handle 0, the empty sequence.  canvas and ctx keep "undefined".  *)
(***************************************************************************)
EXTENDS Integers, Sequences, FiniteSets, TLC

\* ------------------------------------------------------------------ bounds
\* Trigger calls that get past the guards in one run (each leaves a timer).
MaxTriggers == 2
\* CONFIG.particleCount at module load is 150 in the source; the model loads
\* the module with this scaled-down default.
DefaultParticleCount == 1

\* ------------------------------------------------------------------ units
\* One surface unit, Math.random()'s 1 and a windResistance of 1, in model units.
PosScale == 100
Permille == 1000
Percent == 100

\* ------------------------------------------------------ environment inputs
\* << window.innerWidth, window.innerHeight >> values the viewport can take;
\* the page is loaded in the first.
InitialViewport == << 800, 20 >>
Viewports == { InitialViewport, << 401, 10 >> }

\* Results of the seven Math.random() calls of one Particle construction.
RandomDraws ==
  { [size |-> 0, color |-> 0, shape |-> 0, angle |-> 0, velocity |-> 0,
     rotation |-> 0, rotationSpeed |-> 0],
    [size |-> 500, color |-> 500, shape |-> 500, angle |-> 500, velocity |-> 500,
     rotation |-> 500, rotationSpeed |-> 500] }

\* The options objects callers pass to triggerConfetti; a field that is not
\* in the DOMAIN is a property the caller did not supply.
NoOptions == [k \in {} |-> 0]
TriggerOptions ==
  { NoOptions,
    [x |-> 400, y |-> 40, count |-> 2],
    [x |-> 0, y |-> 0, count |-> 0],
    [count |-> 0 - 1],
    [y |-> 200, count |-> 1] }

\* The objects callers pass to updateConfig.
ConfigPartials ==
  { [gravity |-> 0, particleCount |-> 1, duration |-> 1000] }

\* ------------------------------------------------------------------ CONFIG
DefaultConfig ==
  [ particleCount |-> DefaultParticleCount,
    duration |-> 4000,
    colors |-> <<"#d4a574", "#e8d4b8", "#1e3a5f", "#4caf50", "#2196f3">>,
    shapes |-> <<"circle", "square">>,
    gravity |-> 50,
    windResistance |-> 98,
    initialVelocityRange |-> [min |-> 0 - 1500, max |-> 0 - 500],
    angleRange |-> [min |-> 0 - 45, max |-> 0 - 135] ]

VARIABLES
  \* host environment
  domCanvas,      \* the document has an element with id confetti-canvas
  innerWidth,     \* window.innerWidth
  innerHeight,    \* window.innerHeight
  reducedMotion,  \* matchMedia('(prefers-reduced-motion: reduce)').matches
  resizeListener, \* resizeCanvas is registered for window resize events
  canvasWidth,    \* canvas.width
  canvasHeight,   \* canvas.height
  rafPending,     \* handles of requested, not yet delivered or cancelled frames
  timers,         \* pending setTimeout callbacks, in scheduling order
  \* module-level state of confetti.js
  CONFIG,
  canvas,
  ctx,
  particles,
  animationId,
  isAnimating,
  \* history
  triggers,       \* number of trigger calls that scheduled a timer so far
  last            \* the operation that produced the current state

VARIABLES
  \* module-level state of game.js and the part of the page it drives
  currentQuestion,
  score,
  presented,       \* index of the question whose option buttons are in the
                   \* options container; -1: none (nothing loaded yet, or the
                   \* results panel)
  buttonsDisabled, \* the option buttons are disabled
  advances,        \* pending setTimeout callbacks of handleAnswer
  \* history
  restarts,        \* restartGame() calls so far
  answered         \* indices answered since the page was loaded or restarted

engineVars == << domCanvas, innerWidth, innerHeight, reducedMotion, resizeListener,
                 canvasWidth, canvasHeight, rafPending, timers, CONFIG, canvas, ctx,
                 particles, animationId, isAnimating, triggers, last >>

gameVars == << currentQuestion, score, presented, buttonsDisabled, advances,
               restarts, answered >>

vars == << engineVars, gameVars >>

\* game.js as loaded, before initGame().
GameLoaded ==
  /\ currentQuestion = 0
  /\ score = 0
  /\ presented = 0 - 1
  /\ buttonsDisabled = FALSE
  /\ advances = 0
  /\ restarts = 0
  /\ answered = {}

\* ------------------------------------------------------------ pure helpers
MulDiv(a, b, d) == (a * b) \div d

Max(a, b) == IF a >= b THEN a ELSE b

\* Math.cos / Math.sin in thousandths, tabulated at the multiples of 45 degrees.
Cos(deg) ==
  CASE deg = 0 - 180 -> 0 - 1000
    [] deg = 0 - 135 -> 0 - 707
    [] deg = 0 - 90 -> 0
    [] deg = 0 - 45 -> 707
    [] deg = 0 -> 1000
    [] deg = 45 -> 707
    [] deg = 90 -> 0
    [] deg = 135 -> 0 - 707
    [] deg = 180 -> 0 - 1000

Sin(deg) ==
  CASE deg = 0 - 180 -> 0
    [] deg = 0 - 135 -> 0 - 707
    [] deg = 0 - 90 -> 0 - 1000
    [] deg = 0 - 45 -> 0 - 707
    [] deg = 0 -> 0
    [] deg = 45 -> 707
    [] deg = 90 -> 1000
    [] deg = 135 -> 707
    [] deg = 180 -> 0

\* JavaScript truthiness of a number: 0 is falsy.
Truthy(n) == n # 0

\* new Particle(x, y) with the Math.random() results r; burst is a history
\* field: the number of the trigger call that constructed the particle.
Particle(x, y, r, cfg, burst) ==
  LET angle == MulDiv(r.angle, cfg.angleRange.max - cfg.angleRange.min, Permille)
                 + cfg.angleRange.min
      velocity == MulDiv(r.velocity,
                         cfg.initialVelocityRange.max - cfg.initialVelocityRange.min,
                         Permille) + cfg.initialVelocityRange.min
  IN [ x |-> x,
       y |-> y,
       size |-> MulDiv(r.size, 8 * PosScale, Permille) + 4 * PosScale,
       color |-> cfg.colors[MulDiv(r.color, Len(cfg.colors), Permille) + 1],
       shape |-> cfg.shapes[MulDiv(r.shape, Len(cfg.shapes), Permille) + 1],
       vx |-> MulDiv(Cos(angle), velocity, Permille),
       vy |-> MulDiv(Sin(angle), velocity, Permille),
       rotation |-> MulDiv(r.rotation, 6283, Permille),
       rotationSpeed |-> MulDiv(r.rotationSpeed - 500, 200, Permille),
       opacity |-> 100,
       life |-> 100,
       burst |-> burst ]

\* Mutant of Update: the step forgets the decay.
UpdateWithoutDecay(p, cfg) ==
  LET vy1 == p.vy + cfg.gravity
      vx2 == MulDiv(p.vx, cfg.windResistance, Percent)
      vy2 == MulDiv(vy1, cfg.windResistance, Percent)
  IN [ p EXCEPT !.vx = vx2,
                !.vy = vy2,
                !.x = p.x + vx2,
                !.y = p.y + vy2,
                !.rotation = p.rotation + p.rotationSpeed ]

\* Mutant of Update: the step uses the gravity and resistance the module was
\* loaded with.
UpdateLoadTimePhysics(p, cfg) ==
  LET vy1 == p.vy + DefaultConfig.gravity
      vx2 == MulDiv(p.vx, DefaultConfig.windResistance, Percent)
      vy2 == MulDiv(vy1, DefaultConfig.windResistance, Percent)
  IN [ p EXCEPT !.vx = vx2,
                !.vy = vy2,
                !.x = p.x + vx2,
                !.y = p.y + vy2,
                !.rotation = p.rotation + p.rotationSpeed,
                !.life = p.life - 1,
                !.opacity = Max(0, p.life - 1) ]

\* Mutant of Update: the step takes the decrement twice.
UpdateDecaysTwice(p, cfg) ==
  LET vy1 == p.vy + cfg.gravity
      vx2 == MulDiv(p.vx, cfg.windResistance, Percent)
      vy2 == MulDiv(vy1, cfg.windResistance, Percent)
  IN [ p EXCEPT !.vx = vx2,
                !.vy = vy2,
                !.x = p.x + vx2,
                !.y = p.y + vy2,
                !.rotation = p.rotation + p.rotationSpeed,
                !.life = p.life - 2,
                !.opacity = Max(0, p.life - 2) ]

\* Mutant of Update: opacity is taken from life before the decrement.
UpdateOpacityLags(p, cfg) ==
  LET vy1 == p.vy + cfg.gravity
      vx2 == MulDiv(p.vx, cfg.windResistance, Percent)
      vy2 == MulDiv(vy1, cfg.windResistance, Percent)
  IN [ p EXCEPT !.vx = vx2,
                !.vy = vy2,
                !.x = p.x + vx2,
                !.y = p.y + vy2,
                !.rotation = p.rotation + p.rotationSpeed,
                !.life = p.life - 1,
                !.opacity = Max(0, p.life) ]

\* Mutant of Update: the position is integrated with the velocity as it was
\* before drag.
UpdateIntegratesBeforeDrag(p, cfg) ==
  LET vy1 == p.vy + cfg.gravity
      vx2 == MulDiv(p.vx, cfg.windResistance, Percent)
      vy2 == MulDiv(vy1, cfg.windResistance, Percent)
  IN [ p EXCEPT !.vx = vx2,
                !.vy = vy2,
                !.x = p.x + p.vx,
                !.y = p.y + vy1,
                !.rotation = p.rotation + p.rotationSpeed,
                !.life = p.life - 1,
                !.opacity = Max(0, p.life - 1) ]

\* Particle.update()
Update(p, cfg) ==
  LET vy1 == p.vy + cfg.gravity
      vx2 == MulDiv(p.vx, cfg.windResistance, Percent)
      vy2 == MulDiv(vy1, cfg.windResistance, Percent)
  IN [ p EXCEPT !.vx = vx2,
                !.vy = vy2,
                !.x = p.x + vx2,
                !.y = p.y + vy2,
                !.rotation = p.rotation + p.rotationSpeed,
                !.life = p.life - 1,
                !.opacity = Max(0, p.life - 1) ]

\* Mutant of IsAlive: a particle whose life has just reached 0 still counts.
IsAliveInclusive(p, height) == p.life >= 0 /\ p.y < (height + 50) * PosScale

\* Particle.isAlive()
IsAlive(p, height) == p.life > 0 /\ p.y < (height + 50) * PosScale

\* createParticles(x, y, count): the particles pushed, draws[i] being the
\* random results of the i-th construction.
CreateParticles(x, y, count, draws, cfg, burst) ==
  [i \in 1 .. Max(count, 0) |-> Particle(x, y, draws[i], cfg, burst)]

\* particles.filter(particle => { particle.update(); return particle.isAlive() })
RECURSIVE StepAndFilter(_, _, _)
StepAndFilter(ps, cfg, height) ==
  IF ps = <<>> THEN <<>>
  ELSE LET q == Update(Head(ps), cfg)
           rest == StepAndFilter(Tail(ps), cfg, height)
       IN IF IsAlive(q, height) THEN <<q>> \o rest ELSE rest

\* Mutant of DrawCalls: every stepped particle is drawn, alive or not.
RECURSIVE DrawCallsBeforeAliveCheck(_, _, _)
DrawCallsBeforeAliveCheck(ps, cfg, height) ==
  IF ps = <<>> THEN <<>>
  ELSE <<Update(Head(ps), cfg)>> \o DrawCallsBeforeAliveCheck(Tail(ps), cfg, height)

\* The particle.draw(ctx) calls of the filter callback of animate(), which
\* sit inside 'if (particle.isAlive())'.
RECURSIVE DrawCalls(_, _, _)
DrawCalls(ps, cfg, height) ==
  IF ps = <<>> THEN <<>>
  ELSE LET q == Update(Head(ps), cfg)
           rest == DrawCalls(Tail(ps), cfg, height)
       IN IF IsAlive(q, height) THEN <<q>> \o rest ELSE rest

\* The three values triggerConfetti resolves from its options.
ResolveX(options, width) ==
  IF "x" \in DOMAIN options /\ Truthy(options.x)
  THEN options.x * PosScale
  ELSE (width * PosScale) \div 2

ResolveY(options) ==
  IF "y" \in DOMAIN options /\ Truthy(options.y)
  THEN options.y * PosScale
  ELSE 40 * PosScale

\* Mutant of ResolveCount: only a positive count is taken from the options.
ResolveCountPositiveOnly(options, cfg) ==
  IF "count" \in DOMAIN options /\ options.count > 0
  THEN options.count
  ELSE cfg.particleCount

ResolveCount(options, cfg) ==
  IF "count" \in DOMAIN options /\ Truthy(options.count)
  THEN options.count
  ELSE cfg.particleCount

\* requestAnimationFrame: a handle no pending request has.  Handles are
\* positive; the host never hands out one that is still pending.
NewHandle(pending) == CHOOSE h \in 1 .. (Cardinality(pending) + 1) : h \notin pending

\* Mutant of Assign: the fields that are not named go back to their defaults.
AssignOverDefaults(cfg, partial) ==
  [f \in DOMAIN cfg |-> IF f \in DOMAIN partial THEN partial[f] ELSE DefaultConfig[f]]

\* Object.assign(CONFIG, newConfig)
Assign(cfg, partial) ==
  [f \in DOMAIN cfg |-> IF f \in DOMAIN partial THEN partial[f] ELSE cfg[f]]

\* History record of one operation: its name, the branch it took, the
\* particles it constructed (as constructed, before any step), the number of
\* the trigger call whose timer ran (0: none), whether a stopConfetti() call
\* of the page ran while that timer was pending, and the trigger numbers of
\* the particles a forced stop removed, the number of update() calls the
\* operation made, and the particles it handed to draw(), in call order and
\* as they were when drawn.
Event(op, outcome, made) ==
  [op |-> op, outcome |-> outcome, made |-> made, timer |-> 0, stale |-> FALSE,
   cut |-> {}, stepped |-> 0, drawn |-> <<>>]

Bursts(ps) == { ps[i].burst : i \in DOMAIN ps }

\* Mutants of the guards: a guard that is missing or never taken.
GuardAlwaysTaken == TRUE
GuardNeverTaken == FALSE

\* The guards of confetti.js.
\* if (!canvas || !ctx) of triggerConfetti
NotInitialized == canvas # "element" \/ ctx = "undefined"

\* if (window.matchMedia('(prefers-reduced-motion: reduce)').matches)
ReducedMotionMatches == reducedMotion

\* if (!isAnimating) of triggerConfetti
NotAnimating == ~isAnimating

\* if (isAnimating) of the setTimeout callback
StillAnimating == isAnimating

\* -------------------------------------------------------------------- Init
\* The page after confetti.js was loaded and before any call into it.
Init ==
  /\ domCanvas \in BOOLEAN
  /\ innerWidth = InitialViewport[1]
  /\ innerHeight = InitialViewport[2]
  /\ reducedMotion = FALSE
  /\ resizeListener = FALSE
  /\ canvasWidth = 300
  /\ canvasHeight = 150
  /\ rafPending = {}
  /\ timers = <<>>
  /\ CONFIG = DefaultConfig
  /\ canvas = "undefined"
  /\ ctx = "undefined"
  /\ particles = <<>>
  /\ animationId = 0
  /\ isAnimating = FALSE
  /\ triggers = 0
  /\ last = Event("load", "", <<>>)
  /\ GameLoaded

\* ----------------------------------------------------------------- actions
\* Mutant of ResizeCanvas: only the width follows the viewport.
ResizeCanvasWidthOnly(cv, w, h) ==
  IF cv # "element"
  THEN UNCHANGED << canvasWidth, canvasHeight >>
  ELSE /\ canvasWidth' = w
       /\ UNCHANGED canvasHeight

\* resizeCanvas(), run with canvas = cv while the viewport is w by h
ResizeCanvas(cv, w, h) ==
  IF cv # "element"
  THEN UNCHANGED << canvasWidth, canvasHeight >>
  ELSE /\ canvasWidth' = w
       /\ canvasHeight' = h

\* initConfetti()
InitConfetti ==
  /\ canvas' = IF domCanvas THEN "element" ELSE "null"
  /\ IF ~domCanvas
     THEN /\ UNCHANGED << ctx, particles, isAnimating, resizeListener,
                          canvasWidth, canvasHeight >>
          /\ last' = Event("init", "not found", <<>>)
     ELSE /\ ctx' = "2d"
          /\ particles' = <<>>
          /\ isAnimating' = FALSE
          /\ ResizeCanvas("element", innerWidth, innerHeight)
          /\ resizeListener' = TRUE
          /\ last' = Event("init", "bound", <<>>)
  /\ UNCHANGED << domCanvas, innerWidth, innerHeight, reducedMotion, rafPending,
                  timers, CONFIG, animationId, triggers >>

\* Mutant of ResizeEvent: the resize event does not reach the surface.
ResizeEventNotHandled(w, h) ==
  /\ << w, h >> # << innerWidth, innerHeight >>
  /\ innerWidth' = w
  /\ innerHeight' = h
  /\ last' = Event("resize", "", <<>>)
  /\ UNCHANGED << domCanvas, reducedMotion, resizeListener, canvasWidth, canvasHeight,
                  rafPending, timers, CONFIG, canvas, ctx, particles, animationId,
                  isAnimating, triggers >>

\* The viewport changes size; the host delivers the resize event.
ResizeEvent(w, h) ==
  /\ << w, h >> # << innerWidth, innerHeight >>
  /\ innerWidth' = w
  /\ innerHeight' = h
  /\ IF resizeListener THEN ResizeCanvas(canvas, w, h)
                       ELSE UNCHANGED << canvasWidth, canvasHeight >>
  /\ last' = Event("resize", "", <<>>)
  /\ UNCHANGED << domCanvas, reducedMotion, resizeListener, rafPending, timers,
                  CONFIG, canvas, ctx, particles, animationId, isAnimating,
                  triggers >>

\* The user switches the reduced-motion preference.
MediaChange ==
  /\ reducedMotion' = ~reducedMotion
  /\ last' = Event("media", "", <<>>)
  /\ UNCHANGED << domCanvas, innerWidth, innerHeight, resizeListener, canvasWidth,
                  canvasHeight, rafPending, timers, CONFIG, canvas, ctx, particles,
                  animationId, isAnimating, triggers >>

\* Mutant of Animate: the next frame is requested whether or not a particle
\* is left.
AnimateAlwaysRequests(ps, pend, animating) ==
  IF ctx = "undefined" \/ canvas # "element"
  THEN /\ particles' = ps
       /\ rafPending' = pend
       /\ isAnimating' = animating
       /\ UNCHANGED animationId
  ELSE /\ particles' = StepAndFilter(ps, CONFIG, canvasHeight)
       /\ rafPending' = pend \cup {NewHandle(pend)}
       /\ animationId' = NewHandle(pend)
       /\ isAnimating' = animating

\* Mutant of Animate: isAnimating is not cleared when no particle is left.
AnimateLeavesFlagSet(ps, pend, animating) ==
  IF ctx = "undefined" \/ canvas # "element"
  THEN /\ particles' = ps
       /\ rafPending' = pend
       /\ isAnimating' = animating
       /\ UNCHANGED animationId
  ELSE /\ particles' = StepAndFilter(ps, CONFIG, canvasHeight)
       /\ isAnimating' = animating
       /\ IF Len(particles') > 0
          THEN /\ rafPending' = pend \cup {NewHandle(pend)}
               /\ animationId' = NewHandle(pend)
          ELSE /\ rafPending' = pend
               /\ UNCHANGED animationId

\* animate(), entered with the particle list ps, the pending frame requests
\* pend and the flag animating.
Animate(ps, pend, animating) ==
  IF ctx = "undefined" \/ canvas # "element"
  THEN /\ particles' = ps
       /\ rafPending' = pend
       /\ isAnimating' = animating
       /\ UNCHANGED animationId
  ELSE LET kept == StepAndFilter(ps, CONFIG, canvasHeight)
       IN /\ particles' = kept
          /\ IF Len(kept) > 0
             THEN /\ rafPending' = pend \cup {NewHandle(pend)}
                  /\ animationId' = NewHandle(pend)
                  /\ isAnimating' = animating
             ELSE /\ rafPending' = pend
                  /\ isAnimating' = FALSE
                  /\ UNCHANGED animationId

\* The update() and draw() calls of one run of animate() on the particle
\* list ps, as fields of the history record e.
AnimateCalls(e, ps) ==
  IF ctx = "undefined" \/ canvas # "element"
  THEN e
  ELSE [e EXCEPT !.stepped = Len(ps),
                 !.drawn = DrawCalls(ps, CONFIG, canvasHeight)]

\* The host delivers the frame requested under handle h.
FrameCallback(h) ==
  /\ h \in rafPending
  /\ Animate(particles, rafPending \ {h}, isAnimating)
  /\ last' = AnimateCalls(Event("frame", "", <<>>), particles)
  /\ UNCHANGED << domCanvas, innerWidth, innerHeight, reducedMotion, resizeListener,
                  canvasWidth, canvasHeight, timers, CONFIG, canvas, ctx, triggers >>

\* Mutant of StopBody: the particle collection is not emptied.
StopBodyKeepsParticles ==
  /\ IF animationId # 0
     THEN /\ rafPending' = rafPending \ {animationId}
          /\ animationId' = 0
     ELSE UNCHANGED << rafPending, animationId >>
  /\ UNCHANGED particles
  /\ isAnimating' = FALSE

\* The body of stopConfetti().
StopBody ==
  /\ IF animationId # 0
     THEN /\ rafPending' = rafPending \ {animationId}
          /\ animationId' = 0
     ELSE UNCHANGED << rafPending, animationId >>
  /\ particles' = <<>>
  /\ isAnimating' = FALSE

\* Mutant of StopConfetti: the page's stop also clears the deferred stops.
StopConfettiClearsTimers ==
  /\ StopBody
  /\ timers' = <<>>
  /\ last' = [Event("stop", "", <<>>) EXCEPT !.cut = Bursts(particles)]
  /\ UNCHANGED << domCanvas, innerWidth, innerHeight, reducedMotion, resizeListener,
                  canvasWidth, canvasHeight, CONFIG, canvas, ctx, triggers >>

\* stopConfetti() called by the page.
StopConfetti ==
  /\ StopBody
  /\ timers' = [i \in DOMAIN timers |-> [timers[i] EXCEPT !.stopped = TRUE]]
  /\ last' = [Event("stop", "", <<>>) EXCEPT !.cut = Bursts(particles)]
  /\ UNCHANGED << domCanvas, innerWidth, innerHeight, reducedMotion, resizeListener,
                  canvasWidth, canvasHeight, CONFIG, canvas, ctx, triggers >>

\* A timer may run once every timer that is due no later has run: one that
\* was scheduled earlier with a duration that is not longer.
Due(i) == \A j \in 1 .. (i - 1) : timers[j].duration > timers[i].duration

RemoveAt(s, i) == SubSeq(s, 1, i - 1) \o SubSeq(s, i + 1, Len(s))

\* The setTimeout callback of the i-th pending timer runs.
TimerFire(i) ==
  /\ i \in DOMAIN timers
  /\ Due(i)
  /\ timers' = RemoveAt(timers, i)
  /\ IF StillAnimating
     THEN /\ StopBody
          /\ last' = [Event("timer", "stopped", <<>>) EXCEPT
                        !.timer = timers[i].id, !.stale = timers[i].stopped,
                        !.cut = Bursts(particles)]
     ELSE /\ UNCHANGED << rafPending, animationId, particles, isAnimating >>
          /\ last' = [Event("timer", "ignored", <<>>) EXCEPT
                        !.timer = timers[i].id, !.stale = timers[i].stopped]
  /\ UNCHANGED << domCanvas, innerWidth, innerHeight, reducedMotion, resizeListener,
                  canvasWidth, canvasHeight, CONFIG, canvas, ctx, triggers >>

\* triggerConfetti(options); draws are the random results of the particles
\* it constructs.
TriggerConfetti(options, draws) ==
  IF NotInitialized
  THEN /\ draws = <<>>
       /\ last' = Event("trigger", "not initialized", <<>>)
       /\ UNCHANGED << domCanvas, innerWidth, innerHeight, reducedMotion,
                       resizeListener, canvasWidth, canvasHeight, rafPending, timers,
                       CONFIG, canvas, ctx, particles, animationId, isAnimating,
                       triggers >>
  ELSE IF ReducedMotionMatches
  THEN /\ draws = <<>>
       /\ last' = Event("trigger", "reduced motion", <<>>)
       /\ UNCHANGED << domCanvas, innerWidth, innerHeight, reducedMotion,
                       resizeListener, canvasWidth, canvasHeight, rafPending, timers,
                       CONFIG, canvas, ctx, particles, animationId, isAnimating,
                       triggers >>
  ELSE LET x == ResolveX(options, canvasWidth)
           y == ResolveY(options)
           count == ResolveCount(options, CONFIG)
           made == CreateParticles(x, y, count, draws, CONFIG, triggers + 1)
       IN /\ triggers < MaxTriggers
          /\ Len(draws) = Max(count, 0)
          /\ IF NotAnimating
             THEN Animate(particles \o made, rafPending, TRUE)
             ELSE /\ particles' = particles \o made
                  /\ UNCHANGED << rafPending, animationId, isAnimating >>
          /\ timers' = Append(timers, [id |-> triggers + 1,
                                       duration |-> CONFIG.duration,
                                       stopped |-> FALSE])
          /\ triggers' = triggers + 1
          /\ last' = IF NotAnimating
                     THEN AnimateCalls(Event("trigger", "spawned", made),
                                       particles \o made)
                     ELSE Event("trigger", "spawned", made)
          /\ UNCHANGED << domCanvas, innerWidth, innerHeight, reducedMotion,
                          resizeListener, canvasWidth, canvasHeight, CONFIG, canvas,
                          ctx >>

\* updateConfig(newConfig)
UpdateConfig(partial) ==
  /\ CONFIG' = Assign(CONFIG, partial)
  /\ last' = Event("updateConfig", "", <<>>)
  /\ UNCHANGED << domCanvas, innerWidth, innerHeight, reducedMotion, resizeListener,
                  canvasWidth, canvasHeight, rafPending, timers, canvas, ctx,
                  particles, animationId, isAnimating, triggers >>

\* The random results one trigger call can consume: one draw per particle,
\* for every count that TriggerOptions and CONFIG.particleCount can resolve to.
DrawSeqs == UNION { [1 .. n -> RandomDraws] : n \in 0 .. Max(2, DefaultParticleCount) }

\* The actions of confetti.js leave the game alone.
Next ==
  \/ InitConfetti /\ UNCHANGED gameVars
  \/ \E v \in Viewports : ResizeEvent(v[1], v[2]) /\ UNCHANGED gameVars
  \/ MediaChange /\ UNCHANGED gameVars
  \/ \E h \in rafPending : FrameCallback(h) /\ UNCHANGED gameVars
  \/ StopConfetti /\ UNCHANGED gameVars
  \/ \E i \in DOMAIN timers : TimerFire(i) /\ UNCHANGED gameVars
  \/ \E options \in TriggerOptions, draws \in DrawSeqs :
       TriggerConfetti(options, draws) /\ UNCHANGED gameVars
  \/ \E partial \in ConfigPartials : UpdateConfig(partial) /\ UNCHANGED gameVars

Spec == Init /\ [][Next]_vars

\* ------------------------------------------------ one burst on a tall page
\* A page whose surface is high enough for a particle to live out its whole
\* life, celebrating once: the engine is initialised, one burst is triggered
\* with the configured defaults, and the configuration is edited while the
\* burst is in flight.
TallViewport == << 800, 600 >>

\* The objects this page passes to updateConfig.
BurstPartials ==
  { [gravity |-> 0, windResistance |-> 97],
    [particleCount |-> 2, colors |-> <<"#ffffff">>, shapes |-> <<"square">>] }

InitBurst ==
  /\ domCanvas = TRUE
  /\ innerWidth = TallViewport[1]
  /\ innerHeight = TallViewport[2]
  /\ reducedMotion = FALSE
  /\ resizeListener = FALSE
  /\ canvasWidth = 300
  /\ canvasHeight = 150
  /\ rafPending = {}
  /\ timers = <<>>
  /\ CONFIG = DefaultConfig
  /\ canvas = "undefined"
  /\ ctx = "undefined"
  /\ particles = <<>>
  /\ animationId = 0
  /\ isAnimating = FALSE
  /\ triggers = 0
  /\ last = Event("load", "", <<>>)
  /\ GameLoaded

\* The page's one triggerConfetti() call.
TriggerOnce(draws) ==
  /\ triggers = 0
  /\ TriggerConfetti(NoOptions, draws)

NextBurst ==
  \/ InitConfetti /\ UNCHANGED gameVars
  \/ \E draws \in DrawSeqs : TriggerOnce(draws) /\ UNCHANGED gameVars
  \/ \E h \in rafPending : FrameCallback(h) /\ UNCHANGED gameVars
  \/ \E i \in DOMAIN timers : TimerFire(i) /\ UNCHANGED gameVars
  \/ StopConfetti /\ UNCHANGED gameVars
  \/ \E partial \in BurstPartials : UpdateConfig(partial) /\ UNCHANGED gameVars

\* The host delivers every frame that stays requested; nothing obliges a
\* timer to fire or the page to call anything.
SpecBurst ==
  /\ InitBurst
  /\ [][NextBurst]_vars
  /\ WF_vars(\E h \in rafPending : FrameCallback(h) /\ UNCHANGED gameVars)

\* ------------------------------------------------- one particle on its own
\* A single Particle is constructed and update() is called on it again and
\* again, under the load-time configuration or under one without gravity and
\* without drag.
MaxUpdates == 20

ParticleConfigs ==
  { DefaultConfig,
    [DefaultConfig EXCEPT !.gravity = 0, !.windResistance = Percent] }

\* The << x, y >> the particle is constructed at.
SpawnPoints == { << 400 * PosScale, 40 * PosScale >>, << 0, 0 >> }

InitParticle ==
  /\ domCanvas = TRUE
  /\ innerWidth = InitialViewport[1]
  /\ innerHeight = InitialViewport[2]
  /\ reducedMotion = FALSE
  /\ resizeListener = FALSE
  /\ canvasWidth = 300
  /\ canvasHeight = 150
  /\ rafPending = {}
  /\ timers = <<>>
  /\ CONFIG \in ParticleConfigs
  /\ canvas = "undefined"
  /\ ctx = "undefined"
  /\ \E at \in SpawnPoints, r \in RandomDraws :
       particles = << Particle(at[1], at[2], r, CONFIG, 0) >>
  /\ animationId = 0
  /\ isAnimating = FALSE
  /\ triggers = 0
  /\ last = Event("construct", "", particles)
  /\ GameLoaded

\* particle.update(), called on the one particle.
UpdateCall ==
  /\ last.stepped < MaxUpdates
  /\ particles' = << Update(particles[1], CONFIG) >>
  /\ last' = [last EXCEPT !.stepped = @ + 1]
  /\ UNCHANGED << domCanvas, innerWidth, innerHeight, reducedMotion, resizeListener,
                  canvasWidth, canvasHeight, rafPending, timers, CONFIG, canvas, ctx,
                  animationId, isAnimating, triggers >>

NextParticle == UpdateCall /\ UNCHANGED gameVars

SpecParticle == InitParticle /\ [][NextParticle]_vars

\* ---------------------------------------------------------- the trivia game
\* game.js on a page that has the game's elements and no confetti canvas:
\* initGame() has run, and from then on the player clicks option buttons and
\* the restart button while the delayed advances of handleAnswer fire.
MaxRestarts == 2

\* QUESTIONS, reduced to the index of the correct option; every question has
\* four options.
QUESTIONS == << [correct |-> 1], [correct |-> 2], [correct |-> 0], [correct |-> 3] >>

OptionIndexes == 0 .. 3

\* loadQuestion(index), run while score has the value newScore.  An index
\* without a question ends the game: endGame() celebrates a score of 75% or
\* more with confetti and puts the results panel in the options container.
LoadQuestion(index, newScore) ==
  IF index >= 0 /\ index < Len(QUESTIONS)
  THEN /\ presented' = index
       /\ buttonsDisabled' = FALSE
       /\ UNCHANGED engineVars
  ELSE /\ presented' = 0 - 1
       /\ buttonsDisabled' = FALSE
       /\ IF newScore * 100 = 100 * Len(QUESTIONS)
          THEN TriggerConfetti(NoOptions, <<>>)
          ELSE IF newScore * 100 >= 75 * Len(QUESTIONS)
               THEN TriggerConfetti([count |-> 100], <<>>)
               ELSE UNCHANGED engineVars

\* The page after initGame(): the first question is loaded.
InitGame ==
  /\ domCanvas = FALSE
  /\ innerWidth = InitialViewport[1]
  /\ innerHeight = InitialViewport[2]
  /\ reducedMotion = FALSE
  /\ resizeListener = FALSE
  /\ canvasWidth = 300
  /\ canvasHeight = 150
  /\ rafPending = {}
  /\ timers = <<>>
  /\ CONFIG = DefaultConfig
  /\ canvas = "undefined"
  /\ ctx = "undefined"
  /\ particles = <<>>
  /\ animationId = 0
  /\ isAnimating = FALSE
  /\ triggers = 0
  /\ last = Event("load", "", <<>>)
  /\ currentQuestion = 0
  /\ score = 0
  /\ presented = 0
  /\ buttonsDisabled = FALSE
  /\ advances = 0
  /\ restarts = 0
  /\ answered = {}

\* Mutant of HandleAnswer: the option buttons are not disabled.
HandleAnswerLeavesButtonsEnabled(selectedIndex) ==
  /\ presented >= 0
  /\ ~buttonsDisabled
  /\ score' = IF selectedIndex = QUESTIONS[presented + 1].correct
              THEN score + 1
              ELSE score
  /\ advances' = advances + 1
  /\ answered' = answered \cup {presented}
  /\ UNCHANGED << currentQuestion, presented, buttonsDisabled, restarts >>
  /\ UNCHANGED engineVars

\* A click on option button selectedIndex of the presented question; a
\* disabled button receives no click.
HandleAnswer(selectedIndex) ==
  /\ presented >= 0
  /\ ~buttonsDisabled
  /\ buttonsDisabled' = TRUE
  /\ score' = IF selectedIndex = QUESTIONS[presented + 1].correct
              THEN score + 1
              ELSE score
  /\ advances' = advances + 1
  /\ answered' = answered \cup {presented}
  /\ UNCHANGED << currentQuestion, presented, restarts >>
  /\ UNCHANGED engineVars

\* The setTimeout callback of handleAnswer, 2 seconds after an answer.
Advance ==
  /\ advances > 0
  /\ advances' = advances - 1
  /\ currentQuestion' = currentQuestion + 1
  /\ LoadQuestion(currentQuestion + 1, score)
  /\ UNCHANGED << score, restarts, answered >>

\* restartGame(), from either restart button.
RestartGame ==
  /\ restarts < MaxRestarts
  /\ restarts' = restarts + 1
  /\ currentQuestion' = 0
  /\ score' = 0
  /\ LoadQuestion(0, 0)
  /\ answered' = {}
  /\ UNCHANGED advances

NextGame ==
  \/ \E selectedIndex \in OptionIndexes : HandleAnswer(selectedIndex)
  \/ Advance
  \/ RestartGame

SpecGame == InitGame /\ [][NextGame]_vars

\* ------------------------------------------------------------------ claims
\* A step that ran stopConfetti(): the page's call or an effective timer.
Stopped(e) == e.op = "stop" \/ (e.op = "timer" /\ e.outcome = "stopped")

\* A step in which triggerConfetti got past both guards.
Spawned(e) == e.op = "trigger" /\ e.outcome = "spawned"

\* C1: stop() in any reachable engine state leaves the particle collection
\* empty, isAnimating false and no frame request pending.
C1_StopLeavesNothingPending ==
  Stopped(last) => particles = <<>> /\ ~isAnimating /\ rafPending = {}

\* C2 as claimed: a trigger from Idle that constructs n >= 1 particles
\* returns with the engine animating, exactly n particles in the collection
\* and every one of them with life 1.
C2_TriggerFromIdleUnstepped ==
  [][ (~isAnimating /\ Spawned(last') /\ Len(last'.made) >= 1)
        => /\ isAnimating'
           /\ Len(particles') = Len(last'.made)
           /\ \A i \in DOMAIN particles' : particles'[i].life = 100 ]_vars

\* The constructed particles that are below the culling line after one step.
SurvivorsOfFirstFrame(made) ==
  { i \in DOMAIN made : Update(made[i], CONFIG).y < (canvasHeight + 50) * PosScale }

\* C2 as amended: a trigger from Idle runs the first frame before it returns.
\* On return every particle in the collection has had exactly one step
\* (life 0.99), the collection holds exactly the constructed particles that
\* are still above the culling line after that step, and the engine is
\* animating exactly if at least one remains.
C2_TriggerFromIdleRunsFirstFrame ==
  [][ (~isAnimating /\ Spawned(last') /\ Len(last'.made) >= 1)
        => /\ \A i \in DOMAIN particles' : particles'[i].life = 99
           /\ \A i \in DOMAIN particles' : particles'[i].opacity = 99
           /\ Len(particles') = Cardinality(SurvivorsOfFirstFrame(last'.made))
           /\ isAnimating' <=> particles' # <<>> ]_vars

\* Witness of C2: trigger({x: 400, y: 40, count: 2}) has just returned from
\* Idle with both particles in the collection, stepped once.
C2_Witness ==
  /\ Spawned(last)
  /\ Len(last.made) = 2
  /\ \A i \in DOMAIN last.made : last.made[i].x = 400 * PosScale /\ last.made[i].life = 100
  /\ Len(particles) = 2
  /\ \A i \in DOMAIN particles : particles[i].life = 99
  /\ isAnimating

\* C3: a deferred stop whose timer fires while isAnimating is false changes
\* nothing: particles, isAnimating, frame requests and CONFIG stay as they are.
C3_TimerWhileIdleChangesNothing ==
  [][ (last'.op = "timer" /\ Len(timers') < Len(timers) /\ ~isAnimating)
        => UNCHANGED << particles, isAnimating, rafPending, animationId, CONFIG,
                        canvas, ctx, canvasWidth, canvasHeight >> ]_vars

\* Witness of C3: a timer has fired while the engine was not animating, with
\* a frame request of an abandoned loop still pending.
C3_Witness ==
  /\ last.op = "timer"
  /\ last.outcome = "ignored"
  /\ ~isAnimating
  /\ rafPending # {}

\* C4: with several deferred stops pending, a timer that fires while the
\* engine is animating stops everything: the collection is empty and the
\* engine Idle afterwards, whichever trigger the particles came from.
C4_FirstEffectiveTimerStopsAll ==
  [][ (last'.op = "timer" /\ Len(timers') < Len(timers) /\ isAnimating)
        => particles' = <<>> /\ ~isAnimating' ]_vars

\* Witness of C4: the timer of an earlier trigger has removed particles of a
\* later trigger whose own timer is still pending.
C4_Witness ==
  /\ last.op = "timer"
  /\ last.outcome = "stopped"
  /\ \E b \in last.cut :
       /\ b > last.timer
       /\ \E i \in DOMAIN timers : timers[i].id = b
  /\ particles = <<>>
  /\ ~isAnimating

\* What the host holds of the pending timers: whose they are and their delays.
TimerSchedule(ts) == [i \in DOMAIN ts |-> << ts[i].id, ts[i].duration >>]

\* C5: stop() cancels no deferred stop.  The page's stop() leaves every
\* pending timer scheduled, a pending timer can always be delivered, and a
\* timer that was pending during a stop() still force-stops the engine if it
\* fires while a later trigger has it animating.
C5_StopKeepsTimers ==
  [][ /\ last'.op = "stop" => TimerSchedule(timers') = TimerSchedule(timers)
      /\ timers # <<>> => \E i \in DOMAIN timers : Due(i)
      /\ (last'.op = "timer" /\ last'.stale /\ isAnimating)
           => particles' = <<>> /\ ~isAnimating' ]_vars

\* Witness of C5: a timer scheduled before a stop() of the page has fired
\* after it and has removed the particles of a later trigger only.
C5_Witness ==
  /\ last.op = "timer"
  /\ last.outcome = "stopped"
  /\ last.stale
  /\ last.cut # {}
  /\ \A b \in last.cut : b > last.timer

\* C6: a trigger on an initialized engine while the reduced-motion preference
\* is active changes nothing of the engine, Idle or Animating; the preference
\* is read at each call, so a trigger while it is inactive spawns and
\* schedules its deferred stop.
C6_ReducedMotionBlocksTrigger ==
  [][ /\ (last'.op = "trigger" /\ canvas = "element" /\ reducedMotion)
           => /\ last'.outcome = "reduced motion"
              /\ UNCHANGED << particles, isAnimating, rafPending, animationId,
                              timers, CONFIG, canvas, ctx, canvasWidth,
                              canvasHeight >>
      /\ (last'.op = "trigger" /\ canvas = "element" /\ ~reducedMotion)
           => /\ Spawned(last')
              /\ Len(timers') = Len(timers) + 1 ]_vars

\* Witness of C6: a trigger was blocked while the engine was animating the
\* particles of an earlier trigger that was not blocked.
C6_Witness ==
  /\ last.op = "trigger"
  /\ last.outcome = "reduced motion"
  /\ reducedMotion
  /\ isAnimating
  /\ particles # <<>>
  /\ timers # <<>>

\* The public operations other than initConfetti.
PublicOps == {"trigger", "stop", "updateConfig"}

\* C7 as claimed: once initConfetti found no surface, trigger, stop and
\* updateConfig leave the whole engine state, CONFIG included, unchanged.
C7_NoSurfaceAllNoOps ==
  [][ (canvas = "null" /\ last'.op \in PublicOps)
        => UNCHANGED << particles, isAnimating, rafPending, animationId, timers,
                        CONFIG >> ]_vars

\* C7 as amended: once initConfetti found no surface, no particle, frame
\* request or deferred stop ever exists and isAnimating is never true;
\* trigger and stop change nothing, and updateConfig changes CONFIG only.
C7_NoSurfaceNoAnimation ==
  [][ canvas = "null"
        => /\ particles = <<>> /\ ~isAnimating /\ rafPending = {} /\ timers = <<>>
           /\ animationId = 0
           /\ last'.op \in PublicOps
                => UNCHANGED << particles, isAnimating, rafPending, animationId,
                                timers, canvas, ctx >>
           /\ last'.op \in {"trigger", "stop"} => UNCHANGED CONFIG ]_vars

\* Witness of C7: with no surface found, a trigger was refused after
\* updateConfig had changed the configuration.
C7_Witness ==
  /\ canvas = "null"
  /\ last.op = "trigger"
  /\ last.outcome = "not initialized"
  /\ CONFIG # DefaultConfig
  /\ particles = <<>>

\* triggerConfetti(o) with some random results.
TriggerWith(o) == \E d \in DrawSeqs : TriggerConfetti(o, d)

\* C8: the count of a burst is options.count whenever the caller supplies
\* one, 0 included, and CONFIG.particleCount only when count is absent; that
\* many particles are constructed.  (Stated for the supplied counts >= 0.)
C8_SuppliedCountIsUsed ==
  [][ \A o \in TriggerOptions :
        (TriggerWith(o) /\ Spawned(last'))
          => Len(last'.made) = IF "count" \in DOMAIN o
                               THEN Max(o.count, 0)
                               ELSE CONFIG.particleCount ]_vars

\* C9: the spawn point of a burst is options.x and options.y whenever the
\* caller supplies them, 0 included, and otherwise half the surface width
\* and 40; every particle is constructed at that point.
C9_SuppliedPointIsUsed ==
  [][ \A o \in TriggerOptions :
        (TriggerWith(o) /\ Spawned(last'))
          => \A i \in DOMAIN last'.made :
               /\ last'.made[i].x = IF "x" \in DOMAIN o
                                    THEN o.x * PosScale
                                    ELSE (canvasWidth * PosScale) \div 2
               /\ last'.made[i].y = IF "y" \in DOMAIN o
                                    THEN o.y * PosScale
                                    ELSE 40 * PosScale ]_vars

\* C10 as claimed: a trigger from Idle leaves the engine Animating; a trigger
\* while Animating appends its particles, keeps the earlier ones and requests
\* no frame.  (Stated for the triggers that construct at least one particle.)
C10_TriggerAlwaysAnimates ==
  [][ (Spawned(last') /\ last'.made # <<>>)
        => /\ ~isAnimating => isAnimating'
           /\ isAnimating => /\ particles' = particles \o last'.made
                             /\ rafPending' = rafPending
                             /\ isAnimating' ]_vars

\* C10 as amended: a trigger from Idle runs the first frame at once and
\* leaves the engine Animating, with one more frame requested, exactly if a
\* particle survives that frame; otherwise the engine is Idle again when the
\* trigger returns.  A trigger while Animating appends its particles, keeps
\* the earlier ones and requests no frame.
C10_TriggerStartsOneLoop ==
  [][ Spawned(last')
        => /\ ~isAnimating
                => /\ isAnimating' <=> particles' # <<>>
                   /\ particles' = <<>> => rafPending' = rafPending
                   /\ particles' # <<>>
                        => /\ rafPending \subseteq rafPending'
                           /\ Cardinality(rafPending') = Cardinality(rafPending) + 1
           /\ isAnimating => /\ particles' = particles \o last'.made
                             /\ rafPending' = rafPending
                             /\ isAnimating' ]_vars

\* Witness of C10: a second trigger has appended its not yet stepped
\* particles behind those of the first, with a single frame request pending.
C10_Witness ==
  /\ Spawned(last)
  /\ last.made # <<>>
  /\ Len(particles) > Len(last.made)
  /\ particles[1].burst = 1
  /\ particles[1].life < 100
  /\ particles[Len(particles)].burst = 2
  /\ particles[Len(particles)].life = 100
  /\ Cardinality(rafPending) = 1
  /\ isAnimating

\* C11: stop() is idempotent.  A stop() right after a stop(), and a stop()
\* from Idle, change nothing of the particle collection, isAnimating, the
\* pending frame requests, the pending timers and the configuration.
C11_StopIdempotent ==
  [][ (last'.op = "stop" /\ (last.op = "stop" \/ ~isAnimating))
        => /\ UNCHANGED << particles, isAnimating, rafPending, CONFIG >>
           /\ TimerSchedule(timers') = TimerSchedule(timers) ]_vars

\* C12: isAnimating is true exactly when a frame request is pending.
C12_AnimatingIffFramePending == isAnimating <=> rafPending # {}

\* C14: a successful init() leaves the collection empty, isAnimating false
\* and the surface as large as the viewport, whatever state it is called in.
C14_InitResets ==
  (last.op = "init" /\ last.outcome = "bound")
    => /\ particles = <<>>
       /\ ~isAnimating
       /\ canvasWidth = innerWidth
       /\ canvasHeight = innerHeight

\* Witness of C14: init() has succeeded while a burst was being animated and
\* its deferred stop was pending.
C14_Witness ==
  /\ last.op = "init"
  /\ last.outcome = "bound"
  /\ rafPending # {}
  /\ timers # <<>>
  /\ particles = <<>>
  /\ canvasHeight = innerHeight

\* C17: a trigger with a negative count constructs no particle: it leaves
\* the collection, isAnimating and the frame requests as they were.
C17_NegativeCountSpawnsNothing ==
  [][ \A o \in TriggerOptions :
        ("count" \in DOMAIN o /\ o.count < 0 /\ Spawned(last') /\ TriggerWith(o))
          => /\ last'.made = <<>>
             /\ UNCHANGED << particles, isAnimating, rafPending >> ]_vars

\* Witness of C17: a trigger that constructed nothing has returned with the
\* engine Idle and its deferred stop scheduled.
C17_Witness ==
  /\ Spawned(last)
  /\ last.made = <<>>
  /\ particles = <<>>
  /\ ~isAnimating
  /\ rafPending = {}
  /\ timers # <<>>

\* C18: a frame callback ends with the engine Idle exactly if the collection
\* is empty: then isAnimating is false and no frame is requested; otherwise
\* isAnimating stays true and exactly one frame is requested.
C18_FrameEndsIdleIffEmpty ==
  [][ last'.op = "frame"
        => IF particles' = <<>>
           THEN /\ ~isAnimating'
                /\ rafPending' \subseteq rafPending
                /\ Cardinality(rafPending') = Cardinality(rafPending) - 1
           ELSE /\ isAnimating /\ isAnimating'
                /\ animationId' \in rafPending'
                /\ Cardinality(rafPending') = Cardinality(rafPending) ]_vars

\* Witness of C18: a frame callback has removed the last particle of a burst
\* and left the engine Idle.
C18_Witness ==
  /\ last.op = "frame"
  /\ particles = <<>>
  /\ ~isAnimating
  /\ rafPending = {}
  /\ timers # <<>>

\* C13: the frame loop ends by itself.  With frames being delivered and no
\* further trigger, the engine comes to rest Idle, with an empty collection
\* and no frame request pending, whether or not a deferred stop ever fires.
C13_FrameLoopSelfTerminates ==
  <>[](~isAnimating /\ particles = <<>> /\ rafPending = {})

\* Witness of C13: the burst has ended in a frame callback that removed its
\* last particle, with the deferred stop of the burst still pending.
C13_Witness ==
  /\ last.op = "frame"
  /\ last.stepped > 0
  /\ last.drawn = <<>>
  /\ particles = <<>>
  /\ ~isAnimating
  /\ rafPending = {}
  /\ triggers = 1
  /\ Len(timers) = 1

\* C15: updateConfig(partial) is a shallow merge.  Every field named in
\* partial takes the given value, every other configuration field keeps its
\* value, and the collection with its particles, isAnimating, the frame
\* requests and the timers are not touched.
C15_UpdateConfigShallowMerge ==
  [][ last'.op = "updateConfig"
        => /\ DOMAIN CONFIG' = DOMAIN CONFIG
           /\ \E partial \in BurstPartials :
                /\ \A f \in DOMAIN partial : CONFIG'[f] = partial[f]
                /\ \A f \in (DOMAIN CONFIG) \ (DOMAIN partial) : CONFIG'[f] = CONFIG[f]
           /\ UNCHANGED << particles, isAnimating, rafPending, animationId, timers >>
    ]_vars

\* Witness of C15: an updateConfig during a burst, after which a field set by
\* an earlier updateConfig still has its edited value.
C15_Witness ==
  /\ last.op = "updateConfig"
  /\ CONFIG.particleCount = 2
  /\ CONFIG.gravity = 0
  /\ CONFIG.duration = 4000
  /\ particles # <<>>
  /\ rafPending # {}
  /\ timers # <<>>

\* C16: a frame steps every live particle with the gravity and resistance
\* the configuration has at that moment (with gravity 0 the vertical velocity
\* is only multiplied by the resistance); updateConfig itself alters no live
\* particle, a step never changes a particle's colour, shape or size, and a
\* spawn takes count and palette from the configuration as it then is.
C16_PhysicsLiveSpawnSettingsLater ==
  [][ /\ (last'.op = "frame" /\ Len(particles') = Len(particles))
        => \A i \in DOMAIN particles :
             /\ particles'[i].vx
                  = MulDiv(particles[i].vx, CONFIG.windResistance, Percent)
             /\ particles'[i].vy
                  = MulDiv(particles[i].vy + CONFIG.gravity, CONFIG.windResistance,
                           Percent)
             /\ CONFIG.gravity = 0
                  => particles'[i].vy
                       = MulDiv(particles[i].vy, CONFIG.windResistance, Percent)
             /\ particles'[i].color = particles[i].color
             /\ particles'[i].shape = particles[i].shape
             /\ particles'[i].size = particles[i].size
      /\ last'.op = "updateConfig" => particles' = particles
      /\ Spawned(last')
        => /\ Len(last'.made) = CONFIG.particleCount
           /\ \A i \in DOMAIN last'.made :
                /\ \E c \in DOMAIN CONFIG.colors : last'.made[i].color = CONFIG.colors[c]
                /\ \E c \in DOMAIN CONFIG.shapes : last'.made[i].shape = CONFIG.shapes[c]
    ]_vars

\* Witness of C16: a particle spawned with the load-time palette has been
\* stepped under gravity 0 after both the physics and the palette were edited.
C16_Witness ==
  /\ last.op = "frame"
  /\ CONFIG.gravity = 0
  /\ CONFIG.windResistance = 97
  /\ CONFIG.colors = <<"#ffffff">>
  /\ particles # <<>>
  /\ particles[1].color # "#ffffff"
  /\ particles[1].life < 99

\* The particle list animate() works on in the step that is being taken: a
\* frame callback works on the collection, a trigger from Idle on the
\* collection extended by the particles it has just constructed.
FrameInput == IF last'.op = "frame" THEN particles ELSE particles \o last'.made

RunsFrame == last'.op = "frame" \/ (Spawned(last') /\ ~isAnimating)

\* C19: in every frame each particle of the collection is stepped once and
\* is kept and drawn exactly if it is then alive (life > 0 and y below the
\* current surface height + 50); a particle that is not alive after its step
\* is removed and not drawn, so the collection holds only alive particles.
C19_KeptAndDrawnIffAlive ==
  [][ RunsFrame =>
        LET stepped == [i \in DOMAIN FrameInput |-> Update(FrameInput[i], CONFIG)]
            Alive(q) == q.life > 0 /\ q.y < (canvasHeight + 50) * PosScale
        IN /\ last'.stepped = Len(FrameInput)
           /\ particles' = SelectSeq(stepped, Alive)
           /\ last'.drawn = SelectSeq(stepped, Alive)
           /\ \A i \in DOMAIN particles' : Alive(particles'[i]) ]_vars

\* Witness of C19: a frame callback stepped two particles, removed the one
\* that had fallen past the threshold and kept and drew the other.
C19_Witness ==
  /\ last.op = "frame"
  /\ last.stepped = 2
  /\ Len(particles) = 1
  /\ last.drawn = particles
  /\ particles[1].life > 0
  /\ particles[1].y < (canvasHeight + 50) * PosScale

\* The update steps a particle has had: the constructor sets life to 1 and
\* only update() changes it, by 0.01 a step.
StepsTaken(p) == 100 - p.life

\* Particle p, stepped in the frame that is being run, is in the collection
\* afterwards.
KeptAfterStep(p) == \E j \in DOMAIN particles' : particles'[j] = Update(p, CONFIG)

BelowThresholdAfterStep(p) == Update(p, CONFIG).y < (canvasHeight + 50) * PosScale

\* C20 as stated: a particle that stays above the culling threshold is alive
\* after each of its first 100 steps and is first removed on step 101.
C20_DeadOnStep101 ==
  [][ RunsFrame =>
        \A i \in DOMAIN FrameInput :
          BelowThresholdAfterStep(FrameInput[i])
            => (KeptAfterStep(FrameInput[i]) <=> StepsTaken(FrameInput[i]) + 1 <= 100)
    ]_vars

\* C20 amended: a particle that stays above the culling threshold is alive
\* after each of its first 99 steps and is first dead, and removed, on step 100.
C20_DeadOnStep100 ==
  [][ RunsFrame =>
        \A i \in DOMAIN FrameInput :
          BelowThresholdAfterStep(FrameInput[i])
            => /\ KeptAfterStep(FrameInput[i]) <=> StepsTaken(FrameInput[i]) + 1 <= 99
               /\ Update(FrameInput[i], CONFIG).life > 0
                    <=> StepsTaken(FrameInput[i]) + 1 <= 99
    ]_vars

\* Witness of C20: a particle has had 99 steps and is still in the collection.
C20_Witness ==
  /\ last.op = "frame"
  /\ particles # <<>>
  /\ StepsTaken(particles[1]) = 99
  /\ particles[1].life > 0
  /\ particles[1].y < (canvasHeight + 50) * PosScale

\* C25: with the default configuration every newly spawned particle is
\* launched upward: its initial vertical velocity is negative.
C25_DefaultLaunchIsUpward ==
  (/\ Spawned(last)
   /\ CONFIG.angleRange = DefaultConfig.angleRange
   /\ CONFIG.initialVelocityRange = DefaultConfig.initialVelocityRange)
    => \A i \in DOMAIN last.made : last.made[i].vy < 0

\* C26: at most one frame request is pending at any time.
C26_AtMostOneFramePending == Cardinality(rafPending) <= 1

\* C22: a particle's life starts at 1.0 and never increases.  Every update
\* lowers it by exactly 0.01; a step that runs no frame (a trigger while
\* Animating, a resize, an updateConfig, an ignored timer) leaves every
\* particle that stays in the collection as it was, and drawing a particle
\* does not change its life.
C22_LifeOnlyDecays ==
  [][ /\ \A i \in DOMAIN last'.made : last'.made[i].life = 100
      /\ \A i \in DOMAIN particles' : particles'[i].life <= 100
      /\ RunsFrame
           => /\ \A j \in DOMAIN particles' :
                   \E i \in DOMAIN FrameInput :
                     /\ particles'[j].life = FrameInput[i].life - 1
                     /\ particles'[j].burst = FrameInput[i].burst
              /\ Len(particles') = Len(FrameInput)
                   => \A i \in DOMAIN FrameInput :
                        particles'[i].life = FrameInput[i].life - 1
              /\ \A j \in DOMAIN last'.drawn : last'.drawn[j].life = particles'[j].life
      /\ ~RunsFrame
           => \/ particles' = <<>>
              \/ /\ Len(particles') >= Len(particles)
                 /\ SubSeq(particles', 1, Len(particles)) = particles
    ]_vars

\* Witness of C22: a trigger while Animating has added a fresh particle
\* behind one that has already been stepped twice.
C22_Witness ==
  /\ Spawned(last)
  /\ Len(particles) = 2
  /\ particles[1].life = 98
  /\ particles[2].life = 100
  /\ last.made = << particles[2] >>

\* C24: after a successful init the surface is as large as the viewport in
\* every state; a frame keeps exactly the stepped particles that have life
\* left and are above the viewport height + 50, and a trigger that spawns a
\* particle anywhere but at half the viewport width was given an x, whenever
\* the resize happened.
C24_SurfaceFollowsViewport ==
  [][ /\ (canvas' = "element" /\ ctx' = "2d")
           => /\ canvasWidth' = innerWidth'
              /\ canvasHeight' = innerHeight'
      /\ RunsFrame
           => LET stepped == [i \in DOMAIN FrameInput |-> Update(FrameInput[i], CONFIG)]
                  Above(q) == q.life > 0 /\ q.y < (innerHeight + 50) * PosScale
              IN particles' = SelectSeq(stepped, Above)
      /\ (/\ Spawned(last')
          /\ \E i \in DOMAIN last'.made :
               last'.made[i].x # (innerWidth * PosScale) \div 2)
           => \A o \in TriggerOptions :
                ("x" \notin DOMAIN o \/ o.x = 0) => ~TriggerWith(o)
    ]_vars

\* Witness of C24: after a resize during an animation a trigger without an x
\* has spawned at half the new width, behind particles that were in flight.
C24_Witness ==
  /\ Spawned(last)
  /\ innerWidth # InitialViewport[1]
  /\ canvasWidth = innerWidth
  /\ canvasHeight = innerHeight
  /\ last.made # <<>>
  /\ last.made[1].x = (innerWidth * PosScale) \div 2
  /\ last.made[1].x # 400 * PosScale
  /\ Len(particles) > Len(last.made)

\* opacity == max(0, life), within 0 .. 1, for every particle of the list ps.
OpacityFollowsLife(ps) ==
  \A i \in DOMAIN ps :
    /\ ps[i].opacity = (IF ps[i].life > 0 THEN ps[i].life ELSE 0)
    /\ ps[i].opacity >= 0
    /\ ps[i].opacity <= 100

\* C23: every particle, as constructed, as kept in the collection and as
\* drawn, has opacity == max(0, life) between 0 and 1, and every particle
\* that is drawn is drawn with an opacity above 0.
C23_OpacityIsClampedLife ==
  /\ OpacityFollowsLife(particles)
  /\ OpacityFollowsLife(last.made)
  /\ OpacityFollowsLife(last.drawn)
  /\ \A i \in DOMAIN last.drawn : last.drawn[i].opacity > 0

\* Witness of C23: a particle has been drawn in the last frame of its life,
\* at opacity 0.01.
C23_Witness ==
  /\ last.op = "frame"
  /\ last.drawn # <<>>
  /\ last.drawn[1].life = 1
  /\ last.drawn[1].opacity = 1

\* C21: one update adds gravity, then applies drag, then integrates the
\* position with the new velocity: vy' = (vy + g) * r, vx' = vx * r,
\* x' = x + vx', y' = y + vy', rotation' = rotation + rotationSpeed.  With
\* g = 0 and r = 1 the position after N updates is x0 + N * vx0, y0 + N * vy0.
C21_GravityDragThenIntegrate ==
  [][ /\ particles'[1].vy
           = ((particles[1].vy + CONFIG.gravity) * CONFIG.windResistance) \div Percent
      /\ particles'[1].vx = (particles[1].vx * CONFIG.windResistance) \div Percent
      /\ particles'[1].x = particles[1].x + particles'[1].vx
      /\ particles'[1].y = particles[1].y + particles'[1].vy
      /\ particles'[1].rotation = particles[1].rotation + particles[1].rotationSpeed
      /\ (CONFIG.gravity = 0 /\ CONFIG.windResistance = Percent)
           => /\ particles'[1].x = last.made[1].x + last'.stepped * last.made[1].vx
              /\ particles'[1].y = last.made[1].y + last'.stepped * last.made[1].vy
    ]_vars

\* Witness of C21: ten updates without gravity and drag have moved a particle
\* ten times its launch velocity.
C21_Witness ==
  /\ last.op = "construct"
  /\ last.stepped = 10
  /\ CONFIG.gravity = 0
  /\ CONFIG.windResistance = Percent
  /\ last.made[1].vx # 0
  /\ last.made[1].vy # 0
  /\ particles[1].x = last.made[1].x + 10 * last.made[1].vx
  /\ particles[1].y = last.made[1].y + 10 * last.made[1].vy

\* C27: no question is skipped unanswered; in particular, from a restart
\* until question 0 is answered the quiz stays on question 0 with score 0.
C27_StaysOnQuestionZeroUntilAnswered ==
  answered = {} => (currentQuestion = 0 /\ presented = 0 /\ score = 0)

\* C28: the score stays between 0 and the number of questions.  Between two
\* restarts every answer is to a question not answered before, and a newly
\* presented question has a higher index than every one answered.
C28_ScoreWithinBounds ==
  [][ /\ score' >= 0
      /\ score' <= Len(QUESTIONS)
      /\ score' <= Cardinality(answered')
      /\ (buttonsDisabled' /\ ~buttonsDisabled) => presented \notin answered
      /\ (presented' # presented /\ presented' >= 0)
           => \A q \in answered' : q < presented'
    ]_vars

\* Witness of C28: a full score, reached after a restart while delayed
\* advances from before and after the restart were pending.
C28_Witness ==
  /\ score = Len(QUESTIONS)
  /\ restarts > 0
  /\ advances >= 2
  /\ answered = 0 .. (Len(QUESTIONS) - 1)
====
